---- MODULE Spec2Model ----
(***************************************************************************)
(* Authorization and membership model of opencast-auth.                    *)
(*                                                                         *)
(* The store is the relational state behind the Django models              *)
(* (accounts.User, organizations.Organization / Role / Membership).        *)
(* A request handler is a function from the store and the request to a     *)
(* response and a new store; Spec commits one whole handler per step.      *)
(* ConcSpec runs add_member and remove_member one database statement at a  *)
(* time, so that two requests interleave the way two workers of the        *)
(* service do.                                                             *)
(*                                                                         *)
(* Organization.name / description are free text that no decision reads;   *)
(* slug and is_active stand for the writable fields of the organization.   *)
(***************************************************************************)
EXTENDS Integers, FiniteSets, Sequences, TLC

VARIABLES users, roles, organizations, memberships,
          nextOrgId, nextMembershipId, requests

vars == <<users, roles, organizations, memberships,
          nextOrgId, nextMembershipId, requests>>

----------------------------------------------------------------------------
(* Bounds of the model *)

MaxOrgs == 2
MaxMemberships == 2
\* rows the interleaved add_member requests of ConcSpec may insert
MaxConcInserts == 2

(* Population *)

Users == {"u1", "u2"}
Anonymous == "anon"
Principals == Users \cup {Anonymous}
\* is_staff and is_superuser are separate columns (admin.py:25-26): "u1" is a
\* superuser who is not staff, "u2" is staff and not a superuser
StaffUsers == {"u2"}
SuperUsers == {"u1"}
UnknownEmail == "nobody"
Emails == Users \cup {UnknownEmail}
RoleNames == {"owner", "admin", "member", "viewer"}
UnknownRole == "bogus"
Slugs == {"acme", "beta"}
NoChange == "unset"
None == "none"
OrgIds == 1..MaxOrgs
MembershipIds == 1..MaxMemberships
Slots == {"w1", "w2"}

\* Role.objects.get_or_create(name=..., defaults={"priority": ...})
SeededPriority == [owner |-> 100, admin |-> 80, member |-> 50]

\* a Role row; permissions = JSONField(default=dict), a set of capability names
RoleRow(name) == [name |-> name, priority |-> SeededPriority[name], permissions |-> {}]

\* the Role rows by key, once seeded; no request handler writes them
SeededRoleRows == [n \in DOMAIN SeededPriority |-> RoleRow(n)]

\* the store as one value; roles holds the keys of the Role rows that exist
Store == [users |-> users, roles |-> roles, organizations |-> organizations,
          memberships |-> memberships, nextOrgId |-> nextOrgId,
          nextMembershipId |-> nextMembershipId, role_rows |-> SeededRoleRows]

----------------------------------------------------------------------------
(* Queries *)

Result(status, error, st) == [status |-> status, error |-> error, ids |-> {}, store |-> st]

\* variant: the permission class lets every request through
IsAuthenticated_allowAny(st, p) == TRUE

\* permissions.IsAuthenticated: the credential resolves to a user in the store
IsAuthenticated(st, p) == p \in st.users

is_staff(p) == p \in StaffUsers

is_superuser(p) == p \in SuperUsers

\* User.objects.get(email=user_email); a user is named by its email
UserByEmail(st, email) == {u \in st.users : u = email}

MinById(rows) == CHOOSE m \in rows : \A n \in rows : m.id <= n.id

\* variant: a deactivated membership still counts
ActiveMembershipsOf_any(ms, p, oid) ==
    {m \in ms : m.organization = oid /\ m.user = p}

\* organization.memberships.filter(user=..., is_active=True)
ActiveMembershipsOf(ms, p, oid) ==
    {m \in ms : m.organization = oid /\ m.user = p /\ m.is_active}

\* variant: a deactivated membership still shows the organization
MemberOrgs_anyMembership(st, p) ==
    {o \in st.organizations :
        o.is_active /\ \E m \in st.memberships : m.organization = o.id /\ m.user = p}

\* Organization.objects.filter(memberships__user=user,
\*     memberships__is_active=True, is_active=True)
MemberOrgs(st, p) ==
    {o \in st.organizations :
        o.is_active /\ ActiveMembershipsOf(st.memberships, p, o.id) # {}}

\* variant: no filter on membership
OrganizationViewSet_get_queryset_all(st, p) == st.organizations

OrganizationViewSet_get_queryset(st, p) ==
    IF is_staff(p) THEN st.organizations ELSE MemberOrgs(st, p)

\* get_object(): the lookup raises Http404 outside the queryset
OrgHidden(st, p, oid) ==
    oid \notin {o.id : o \in OrganizationViewSet_get_queryset(st, p)}

\* variant: the whitelist also names member
ManagingRoles_withMember == {"owner", "admin", "member"}

\* role.name not in ["owner", "admin"]
ManagingRoles == {"owner", "admin"}

\* membership.role.name: the Role row the membership points to
RoleName(st, m) == st.role_rows[m.role].name

\* variant: the check is skipped when the actor has no membership
LacksPermission_failOpen(st, p, oid) ==
    LET mine == ActiveMembershipsOf(st.memberships, p, oid) IN
    mine # {} /\ RoleName(st, MinById(mine)) \notin ManagingRoles

\* variant: the actor's rank is compared with the priority of admin
LacksPermission_byPriority(st, p, oid) ==
    LET mine == ActiveMembershipsOf(st.memberships, p, oid) IN
    \/ mine = {}
    \/ st.role_rows[MinById(mine).role].priority < SeededPriority["admin"]

\* user_membership = ....first(); not user_membership or role.name not in [...]
LacksPermission(st, p, oid) ==
    LET mine == ActiveMembershipsOf(st.memberships, p, oid) IN
    \/ mine = {}
    \/ RoleName(st, MinById(mine)) \notin ManagingRoles

\* Organization.objects.filter(..., memberships__role__name__in=[owner, admin],
\*     is_active=True).values_list("id")
ManagedOrgIds(st, p) ==
    {o.id : o \in {x \in st.organizations :
        /\ x.is_active
        /\ \E m \in st.memberships : /\ m.organization = x.id /\ m.user = p
                                     /\ m.is_active /\ RoleName(st, m) \in ManagingRoles}}

\* MembershipViewSet.get_queryset for retrieve / update / partial_update
MembershipViewSet_get_queryset(st, p) ==
    IF is_staff(p) THEN st.memberships
    ELSE {m \in st.memberships :
            m.is_active /\ (m.organization \in ManagedOrgIds(st, p) \/ m.user = p)}

MembershipHidden(st, p, mid) ==
    mid \notin {m.id : m \in MembershipViewSet_get_queryset(st, p)}

\* variant: no uniqueness constraint on the table
UniqueTogetherViolated_none(ms, user, oid) == FALSE

\* unique_together = ["user", "organization"]
UniqueTogetherViolated(ms, user, oid) ==
    \E m \in ms : m.user = user /\ m.organization = oid

\* organization.memberships.filter(role__name="owner", is_active=True).count()
OwnerCount(ms, oid) ==
    Cardinality({m \in ms : m.organization = oid /\ m.role = "owner" /\ m.is_active})

\* variant: off by one
IsLastOwner_offByOne(owner_count) == owner_count < 1

\* if owner_count <= 1: cannot remove the last owner
IsLastOwner(owner_count) == owner_count <= 1

\* variant: the creator gets the admin role
CreatorRole_admin == "admin"

\* Role.objects.get(name="owner")
CreatorRole == "owner"

\* variant: the slug is not validated
SlugNotUnique_unchecked(st, slug, instance) == FALSE

\* UniqueValidator on Organization.slug (unique=True); the instance that is
\* being updated is excluded, a create passes no instance (0)
SlugNotUnique(st, slug, instance) ==
    \E o \in st.organizations : o.slug = slug /\ o.id # instance

NewMembership(id, user, oid, role) ==
    [id |-> id, user |-> user, organization |-> oid, role |-> role, is_active |-> TRUE]

NewOrganization(id, slug, creator) ==
    [id |-> id, slug |-> slug, created_by |-> creator, is_active |-> TRUE]

----------------------------------------------------------------------------
(* Handlers *)

\* POST /organizations/ -> OrganizationCreateSerializer.create
create_organization(st, p, slug) ==
    IF ~IsAuthenticated(st, p) THEN Result(401, "not_authenticated", st)
    ELSE IF SlugNotUnique(st, slug, 0) THEN Result(400, "slug", st)
    ELSE LET withOrg == [st EXCEPT
                 !.organizations = @ \cup {NewOrganization(st.nextOrgId, slug, p)},
                 !.nextOrgId = @ + 1] IN
         IF CreatorRole \notin st.roles
         THEN Result(500, "role_does_not_exist", withOrg)
         ELSE Result(201, None, [withOrg EXCEPT
                 !.memberships = @ \cup
                     {NewMembership(st.nextMembershipId, p, st.nextOrgId, CreatorRole)},
                 !.nextMembershipId = @ + 1])

\* GET /organizations/
list_organizations(st, p) ==
    IF ~IsAuthenticated(st, p) THEN Result(401, "not_authenticated", st)
    ELSE [Result(200, None, st) EXCEPT
             !.ids = {o.id : o \in OrganizationViewSet_get_queryset(st, p)}]

\* GET /organizations/{oid}/
retrieve_organization(st, p, oid) ==
    IF ~IsAuthenticated(st, p) THEN Result(401, "not_authenticated", st)
    ELSE IF OrgHidden(st, p, oid) THEN Result(404, "not_found", st)
    ELSE Result(200, None, st)

\* GET /organizations/{oid}/members/
members(st, p, oid) ==
    IF ~IsAuthenticated(st, p) THEN Result(401, "not_authenticated", st)
    ELSE IF OrgHidden(st, p, oid) THEN Result(404, "not_found", st)
    ELSE [Result(200, None, st) EXCEPT
             !.ids = {m.id : m \in {x \in st.memberships :
                                       x.organization = oid /\ x.is_active}}]

\* request bodies of a partial update; a field is a value or absent
BoolInputs == {"true", "false", NoChange}

OrgData == [slug : Slugs \cup {NoChange}, is_active : BoolInputs]

ApplyOrgData(o, data) ==
    [o EXCEPT !.slug = IF data.slug = NoChange THEN @ ELSE data.slug,
              !.is_active = IF data.is_active = NoChange THEN @ ELSE data.is_active = "true"]

\* PATCH /organizations/{oid}/ -> UpdateModelMixin.update, perform_update
update_organization(st, p, oid, data) ==
    IF ~IsAuthenticated(st, p) THEN Result(401, "not_authenticated", st)
    ELSE IF OrgHidden(st, p, oid) THEN Result(404, "not_found", st)
    ELSE IF data.slug # NoChange /\ SlugNotUnique(st, data.slug, oid)
    THEN Result(400, "slug", st)
    ELSE IF LacksPermission(st, p, oid)
    THEN Result(403, "permission_denied", st)
    ELSE Result(200, None, [st EXCEPT !.organizations =
             {IF o.id = oid THEN ApplyOrgData(o, data) ELSE o : o \in @}])

\* DELETE /organizations/{oid}/ -> DestroyModelMixin.destroy, on_delete=CASCADE
destroy_organization(st, p, oid) ==
    IF ~IsAuthenticated(st, p) THEN Result(401, "not_authenticated", st)
    ELSE IF OrgHidden(st, p, oid) THEN Result(404, "not_found", st)
    ELSE Result(204, None, [st EXCEPT
             !.organizations = {o \in @ : o.id # oid},
             !.memberships = {m \in @ : m.organization # oid}])

\* Membership.objects.filter(user=user, organization=organization).exists()
MembershipExists(ms, user, oid) ==
    \E m \in ms : m.user = user /\ m.organization = oid

\* variant: the role is looked up before the user
MembershipCreateSerializer_validate_roleFirst(st, email, role_name, body_org) ==
    IF body_org \notin {o.id : o \in st.organizations} THEN "organization"
    ELSE IF role_name \notin st.roles THEN "role_name"
    ELSE IF UserByEmail(st, email) = {} THEN "user_email"
    ELSE IF MembershipExists(st.memberships, email, body_org) THEN "already_member"
    ELSE None

\* MembershipCreateSerializer: field validation, then validate()
MembershipCreateSerializer_validate(st, email, role_name, body_org) ==
    IF body_org \notin {o.id : o \in st.organizations} THEN "organization"
    ELSE IF UserByEmail(st, email) = {} THEN "user_email"
    ELSE IF MembershipExists(st.memberships, email, body_org) THEN "already_member"
    ELSE IF role_name \notin st.roles THEN "role_name"
    ELSE None

\* POST /organizations/{oid}/add_member/
add_member(st, p, oid, email, role_name, body_org) ==
    IF ~IsAuthenticated(st, p) THEN Result(401, "not_authenticated", st)
    ELSE IF OrgHidden(st, p, oid) THEN Result(404, "not_found", st)
    ELSE IF LacksPermission(st, p, oid)
    THEN Result(403, "permission_denied", st)
    ELSE IF MembershipCreateSerializer_validate(st, email, role_name, body_org) # None
    THEN Result(400, MembershipCreateSerializer_validate(st, email, role_name, body_org), st)
    ELSE IF UniqueTogetherViolated(st.memberships, email, oid)
    THEN Result(500, "integrity_error", st)
    ELSE Result(201, None, [st EXCEPT
             !.memberships = @ \cup {NewMembership(st.nextMembershipId, email, oid, role_name)},
             !.nextMembershipId = @ + 1])

\* membership.is_active = False; membership.save()
Deactivate(ms, membership) ==
    {m \in ms : m.id # membership.id} \cup {[membership EXCEPT !.is_active = FALSE]}

\* DELETE /organizations/{oid}/members/{user_id}/
remove_member(st, p, oid, user_id) ==
    IF ~IsAuthenticated(st, p) THEN Result(401, "not_authenticated", st)
    ELSE IF OrgHidden(st, p, oid) THEN Result(404, "not_found", st)
    ELSE IF LacksPermission(st, p, oid)
    THEN Result(403, "permission_denied", st)
    ELSE LET found == ActiveMembershipsOf(st.memberships, user_id, oid) IN
         IF found = {} THEN Result(404, "not_a_member", st)
         ELSE IF Cardinality(found) > 1 THEN Result(500, "multiple_objects_returned", st)
         ELSE LET membership == MinById(found) IN
              IF membership.role = "owner" /\ IsLastOwner(OwnerCount(st.memberships, oid))
              THEN Result(400, "last_owner", st)
              ELSE Result(204, None,
                          [st EXCEPT !.memberships = Deactivate(@, membership)])

MembershipData == [role : RoleNames \cup {NoChange, UnknownRole}, is_active : BoolInputs]

\* variant: user is writable and the update hands the row to another user
ApplyMembershipData_userWritable(m, data) ==
    [m EXCEPT !.role = IF data.role = NoChange THEN @ ELSE data.role,
              !.is_active = IF data.is_active = NoChange THEN @ ELSE data.is_active = "true",
              !.user = IF data.role = NoChange THEN @ ELSE CHOOSE u \in Users : u # @]

\* MembershipSerializer: role and is_active are writable, user and
\* organization are read-only
ApplyMembershipData(m, data) ==
    [m EXCEPT !.role = IF data.role = NoChange THEN @ ELSE data.role,
              !.is_active = IF data.is_active = NoChange THEN @ ELSE data.is_active = "true"]

\* PATCH /memberships/{mid}/ -> UpdateModelMixin.update, perform_update
update_membership(st, p, mid, data) ==
    IF ~IsAuthenticated(st, p) THEN Result(401, "not_authenticated", st)
    ELSE IF MembershipHidden(st, p, mid) THEN Result(404, "not_found", st)
    ELSE IF data.role # NoChange /\ data.role \notin st.roles THEN Result(400, "role", st)
    ELSE LET membership == MinById({m \in st.memberships : m.id = mid}) IN
         IF LacksPermission(st, p, membership.organization)
         THEN Result(403, "permission_denied", st)
         ELSE Result(200, None, [st EXCEPT !.memberships =
                  {IF m.id = mid THEN ApplyMembershipData(m, data) ELSE m : m \in @}])

\* UserViewSet.get_queryset
UserViewSet_get_queryset(st, p) == IF is_staff(p) THEN st.users ELSE st.users \cap {p}

\* variant: created_by does not protect the user
ProtectedByOrganization_never(st, uid) == FALSE

\* Organization.created_by on_delete=PROTECT: the collector raises
\* ProtectedError before any row is deleted
ProtectedByOrganization(st, uid) == \E o \in st.organizations : o.created_by = uid

\* DELETE /users/{uid}/ -> DestroyModelMixin.destroy;
\* Organization.created_by on_delete=PROTECT, Membership.user on_delete=CASCADE
destroy_user(st, p, uid) ==
    IF ~IsAuthenticated(st, p) THEN Result(401, "not_authenticated", st)
    ELSE IF uid \notin UserViewSet_get_queryset(st, p) THEN Result(404, "not_found", st)
    ELSE IF ProtectedByOrganization(st, uid)
    THEN Result(500, "protected_error", st)
    ELSE Result(204, None, [st EXCEPT
             !.users = @ \ {uid},
             !.memberships = {m \in @ : m.user # uid}])

\* GET /memberships/?organization=...; the parameter is an id or absent
NoFilter == 0

\* variant: the listing is not filtered on is_active
MembershipViewSet_list_queryset_inactiveToo(st, p, organization_id) ==
    IF is_staff(p) THEN st.memberships
    ELSE IF organization_id # NoFilter
    THEN IF organization_id \in {o.id : o \in MemberOrgs(st, p)}
         THEN {m \in st.memberships : m.organization = organization_id}
         ELSE {}
    ELSE {m \in st.memberships : m.user = p}

\* MembershipViewSet.get_queryset for list
MembershipViewSet_list_queryset(st, p, organization_id) ==
    IF is_staff(p) THEN st.memberships
    ELSE IF organization_id # NoFilter
    THEN IF organization_id \in {o.id : o \in MemberOrgs(st, p)}
         THEN {m \in st.memberships : m.organization = organization_id /\ m.is_active}
         ELSE {}
    ELSE {m \in st.memberships : m.user = p /\ m.is_active}

\* GET /memberships/
list_memberships(st, p, organization_id) ==
    IF ~IsAuthenticated(st, p) THEN Result(401, "not_authenticated", st)
    ELSE [Result(200, None, st) EXCEPT
             !.ids = {m.id : m \in MembershipViewSet_list_queryset(st, p, organization_id)}]

\* GET /memberships/{mid}/
retrieve_membership(st, p, mid) ==
    IF ~IsAuthenticated(st, p) THEN Result(401, "not_authenticated", st)
    ELSE IF MembershipHidden(st, p, mid) THEN Result(404, "not_found", st)
    ELSE [Result(200, None, st) EXCEPT !.ids = {mid}]

\* variant: the list action asks for IsAuthenticated only
ListUsersForbidden_open(p) == FALSE

\* get_permissions: list -> IsAdminUser (request.user.is_staff)
ListUsersForbidden(p) == ~is_staff(p)

\* GET /users/
list_users(st, p) ==
    IF ~IsAuthenticated(st, p) THEN Result(401, "not_authenticated", st)
    ELSE IF ListUsersForbidden(p) THEN Result(403, "permission_denied", st)
    ELSE [Result(200, None, st) EXCEPT !.ids = UserViewSet_get_queryset(st, p)]

\* GET /users/{uid}/
retrieve_user(st, p, uid) ==
    IF ~IsAuthenticated(st, p) THEN Result(401, "not_authenticated", st)
    ELSE IF uid \notin UserViewSet_get_queryset(st, p) THEN Result(404, "not_found", st)
    ELSE [Result(200, None, st) EXCEPT !.ids = {uid}]

\* PATCH /users/{uid}/ -> UserUpdateSerializer (first_name, last_name); the
\* names are no part of the store
update_user(st, p, uid) ==
    IF ~IsAuthenticated(st, p) THEN Result(401, "not_authenticated", st)
    ELSE IF uid \notin UserViewSet_get_queryset(st, p) THEN Result(404, "not_found", st)
    ELSE [Result(200, None, st) EXCEPT !.ids = {uid}]

\* GET /users/me/
me(st, p) ==
    IF ~IsAuthenticated(st, p) THEN Result(401, "not_authenticated", st)
    ELSE [Result(200, None, st) EXCEPT !.ids = {p}]

\* POST /users/change_password/; valid stands for ChangePasswordSerializer.is_valid()
change_password(st, p, valid) ==
    IF ~IsAuthenticated(st, p) THEN Result(401, "not_authenticated", st)
    ELSE IF ~valid THEN Result(400, "invalid", st)
    ELSE Result(200, None, st)

\* GET /users/organizations/ -> user.organizations.filter(is_active=True),
\* the many-to-many through Membership
user_organizations(st, p) ==
    IF ~IsAuthenticated(st, p) THEN Result(401, "not_authenticated", st)
    ELSE [Result(200, None, st) EXCEPT
             !.ids = {o.id : o \in {x \in st.organizations :
                         x.is_active /\ MembershipExists(st.memberships, p, x.id)}}]

\* POST /auth/logout/; refresh stands for a refresh token that is present and valid
logout(st, p, refresh) ==
    IF ~IsAuthenticated(st, p) THEN Result(401, "not_authenticated", st)
    ELSE IF ~refresh THEN Result(400, "invalid_refresh_token", st)
    ELSE Result(205, None, st)

----------------------------------------------------------------------------
TypeOK ==
    /\ users \subseteq Users
    /\ roles \subseteq RoleNames
    /\ \A o \in organizations :
          /\ o.id \in OrgIds /\ o.slug \in Slugs
          /\ o.created_by \in Users /\ o.is_active \in BOOLEAN
    /\ \A m \in memberships :
          /\ m.id \in MembershipIds /\ m.user \in Users
          /\ m.organization \in OrgIds /\ m.role \in RoleNames
          /\ m.is_active \in BOOLEAN
    /\ nextOrgId \in 1..(MaxOrgs + 1)
    /\ nextMembershipId \in 1..(MaxMemberships + 1)

\* a request slot of a worker: where the handler stands and what it has read
IdleRequest ==
    [pc |-> "idle", op |-> None, p |-> Anonymous, oid |-> 0, target |-> None,
     role_name |-> None, body_org |-> 0, found |-> {}, status |-> 0, error |-> None]

Init ==
    /\ users = Users
    /\ roles = {}
    /\ organizations = {}
    /\ memberships = {}
    /\ nextOrgId = 1
    /\ nextMembershipId = 1
    /\ requests = [s \in Slots |-> IdleRequest]

\* the store after a request; no more rows are created than the bounds allow
Commit(result) ==
    /\ result.store.nextOrgId <= MaxOrgs + 1
    /\ result.store.nextMembershipId <= MaxMemberships + 1
    /\ users' = result.store.users
    /\ roles' = result.store.roles
    /\ organizations' = result.store.organizations
    /\ memberships' = result.store.memberships
    /\ nextOrgId' = result.store.nextOrgId
    /\ nextMembershipId' = result.store.nextMembershipId
    /\ UNCHANGED requests

\* Role rows are seeded once, as the fixtures do (owner, admin, member)
SeededRoles == {"owner", "admin", "member"}

SeedRoles ==
    /\ roles = {}
    /\ roles' = SeededRoles
    /\ UNCHANGED <<users, organizations, memberships, nextOrgId, nextMembershipId, requests>>

CreateOrganization(p, slug) == Commit(create_organization(Store, p, slug))

UpdateOrganization(p, oid, data) == Commit(update_organization(Store, p, oid, data))

DestroyOrganization(p, oid) == Commit(destroy_organization(Store, p, oid))

AddMember(p, oid, email, role_name, body_org) ==
    Commit(add_member(Store, p, oid, email, role_name, body_org))

RemoveMember(p, oid, user_id) == Commit(remove_member(Store, p, oid, user_id))

UpdateMembership(p, mid, data) == Commit(update_membership(Store, p, mid, data))

DestroyUser(p, uid) == Commit(destroy_user(Store, p, uid))

\* A request that is refused whatever its body holds leaves the store as it
\* is, so its body is drawn from one value only.
BodyRead(refused, inputs, any) == IF refused THEN {any} ELSE inputs

OrgRefused(p, oid) ==
    ~IsAuthenticated(Store, p) \/ OrgHidden(Store, p, oid)
        \/ LacksPermission(Store, p, oid)

MembershipRefused(p, mid) ==
    \/ ~IsAuthenticated(Store, p) \/ MembershipHidden(Store, p, mid)
    \/ \A m \in memberships : m.id = mid => LacksPermission(Store, p, m.organization)

Next ==
    \/ SeedRoles
    \/ \E p \in Principals, slug \in Slugs : CreateOrganization(p, slug)
    \/ \E p \in Principals, oid \in OrgIds :
          \E data \in BodyRead(OrgRefused(p, oid), OrgData,
                               [slug |-> NoChange, is_active |-> NoChange]) :
             UpdateOrganization(p, oid, data)
    \/ \E p \in Principals, oid \in OrgIds : DestroyOrganization(p, oid)
    \/ \E p \in Principals, oid \in OrgIds :
          \E email \in BodyRead(OrgRefused(p, oid), Emails, UnknownEmail),
             role_name \in BodyRead(OrgRefused(p, oid), RoleNames \cup {UnknownRole}, UnknownRole),
             body_org \in BodyRead(OrgRefused(p, oid), OrgIds, oid) :
             AddMember(p, oid, email, role_name, body_org)
    \/ \E p \in Principals, oid \in OrgIds, user_id \in Users : RemoveMember(p, oid, user_id)
    \/ \E p \in Principals, mid \in MembershipIds :
          \E data \in BodyRead(MembershipRefused(p, mid), MembershipData,
                               [role |-> NoChange, is_active |-> NoChange]) :
             UpdateMembership(p, mid, data)
    \/ \E p \in Principals, uid \in Users : DestroyUser(p, uid)

Spec == Init /\ [][Next]_vars

----------------------------------------------------------------------------
(* add_member and remove_member, one database statement per step.          *)
(* The request body is drawn where the handler first reads it.             *)

storeVars == <<users, roles, organizations, memberships, nextOrgId, nextMembershipId>>

Respond(r, status, error) == [r EXCEPT !.pc = "done", !.status = status, !.error = error]

SetRequest(s, r) == requests' = [requests EXCEPT ![s] = r]

ConcOps == {"add_member", "remove_member"}

\* a request arrives at an idle worker
Start(s, op, p, oid) ==
    /\ requests[s].pc = "idle"
    /\ SetRequest(s, [IdleRequest EXCEPT !.pc = "get_object", !.op = op, !.p = p, !.oid = oid])
    /\ UNCHANGED storeVars

\* authentication, then organization = self.get_object()
GetObject(s) ==
    LET r == requests[s] IN
    /\ r.pc = "get_object"
    /\ SetRequest(s, IF ~IsAuthenticated(Store, r.p) THEN Respond(r, 401, "not_authenticated")
                     ELSE IF OrgHidden(Store, r.p, r.oid) THEN Respond(r, 404, "not_found")
                     ELSE [r EXCEPT !.pc = "permission"])
    /\ UNCHANGED storeVars

\* user_membership = organization.memberships.filter(...).first()
CheckPermission(s) ==
    LET r == requests[s] IN
    /\ r.pc = "permission"
    /\ SetRequest(s, IF LacksPermission(Store, r.p, r.oid)
                     THEN Respond(r, 403, "permission_denied")
                     ELSE [r EXCEPT !.pc = IF r.op = "add_member" THEN "validate"
                                           ELSE "get_membership"])
    /\ UNCHANGED storeVars

\* serializer.is_valid(): the lookups of MembershipCreateSerializer.validate
Validate(s, email, role_name, body_org) ==
    LET r == requests[s]
        error == MembershipCreateSerializer_validate(Store, email, role_name, body_org)
        read == [r EXCEPT !.target = email, !.role_name = role_name, !.body_org = body_org]
    IN
    /\ r.pc = "validate"
    /\ SetRequest(s, IF error # None THEN Respond(read, 400, error)
                     ELSE [read EXCEPT !.pc = "insert"])
    /\ UNCHANGED storeVars

\* serializer.save() -> Membership.objects.create(**validated_data)
Insert(s) ==
    LET r == requests[s] IN
    /\ r.pc = "insert"
    /\ IF UniqueTogetherViolated(memberships, r.target, r.oid)
       THEN /\ SetRequest(s, Respond(r, 500, "integrity_error"))
            /\ UNCHANGED storeVars
       ELSE /\ nextMembershipId <= 1 + MaxConcInserts
            /\ memberships' = memberships \cup
                   {NewMembership(nextMembershipId, r.target, r.oid, r.role_name)}
            /\ nextMembershipId' = nextMembershipId + 1
            /\ SetRequest(s, Respond(r, 201, None))
            /\ UNCHANGED <<users, roles, organizations, nextOrgId>>

\* membership = organization.memberships.get(user__id=user_id, is_active=True)
GetMembership(s, user_id) ==
    LET r == requests[s]
        found == ActiveMembershipsOf(memberships, user_id, r.oid)
        read == [r EXCEPT !.target = user_id, !.found = found]
    IN
    /\ r.pc = "get_membership"
    /\ SetRequest(s, IF found = {} THEN Respond([read EXCEPT !.found = {}], 404, "not_a_member")
                     ELSE IF Cardinality(found) > 1
                     THEN Respond([read EXCEPT !.found = {}], 500, "multiple_objects_returned")
                     ELSE [read EXCEPT !.pc = IF MinById(found).role = "owner"
                                              THEN "count" ELSE "save"])
    /\ UNCHANGED storeVars

\* owner_count = organization.memberships.filter(role__name="owner", ...).count()
CountOwners(s) ==
    LET r == requests[s] IN
    /\ r.pc = "count"
    /\ SetRequest(s, IF IsLastOwner(OwnerCount(memberships, r.oid))
                     THEN Respond(r, 400, "last_owner")
                     ELSE [r EXCEPT !.pc = "save"])
    /\ UNCHANGED storeVars

\* membership.is_active = False; membership.save()
Save(s) ==
    LET r == requests[s] IN
    /\ r.pc = "save"
    /\ memberships' = Deactivate(memberships, MinById(r.found))
    /\ SetRequest(s, Respond(r, 204, None))
    /\ UNCHANGED <<users, roles, organizations, nextOrgId, nextMembershipId>>

\* the response has been sent; the worker takes the next request
Finish(s) ==
    /\ requests[s].pc = "done"
    /\ SetRequest(s, IdleRequest)
    /\ UNCHANGED storeVars

ConcNext ==
    \/ \E s \in Slots, op \in ConcOps, p \in Principals, oid \in OrgIds : Start(s, op, p, oid)
    \/ \E s \in Slots : GetObject(s)
    \/ \E s \in Slots : CheckPermission(s)
    \/ \E s \in Slots, email \in Emails, role_name \in RoleNames \cup {UnknownRole},
          body_org \in OrgIds : Validate(s, email, role_name, body_org)
    \/ \E s \in Slots : Insert(s)
    \/ \E s \in Slots, user_id \in Users : GetMembership(s, user_id)
    \/ \E s \in Slots : CountOwners(s)
    \/ \E s \in Slots : Save(s)
    \/ \E s \in Slots : Finish(s)

\* the store after the roles were seeded and "u1" created organization "acme"
ConcInit ==
    /\ users = Users
    /\ roles = SeededRoles
    /\ organizations = {NewOrganization(1, "acme", "u1")}
    /\ memberships = {NewMembership(1, "u1", 1, CreatorRole)}
    /\ nextOrgId = 2
    /\ nextMembershipId = 2
    /\ requests = [s \in Slots |-> IdleRequest]

ConcSpec == ConcInit /\ [][ConcNext]_vars

----------------------------------------------------------------------------
(* Properties *)

HasActiveMembership(p, oid) ==
    \E m \in memberships : m.user = p /\ m.organization = oid /\ m.is_active

ActiveOwners(oid) ==
    {m \in memberships : m.organization = oid /\ m.role = "owner" /\ m.is_active}

\* p is authenticated, can see the organization and is an active owner or admin of it
CanManage(p, oid) ==
    /\ p \in users
    /\ \E o \in organizations : o.id = oid /\ (o.is_active \/ is_staff(p))
    /\ \E m \in memberships : /\ m.user = p /\ m.organization = oid /\ m.is_active
                              /\ m.role \in {"owner", "admin"}

\* C1: every active organization has at least one active membership with
\* role owner, in every state the API operations can reach.
C1_ActiveOrgHasActiveOwner ==
    \A o \in organizations : o.is_active => ActiveOwners(o.id) # {}

\* C2: remove_member by an authorized actor on an active owner membership is
\* rejected with the last-owner error (400) and changes nothing when it is the
\* only active owner; with two or more active owners it succeeds (204),
\* deactivates exactly the targeted membership and leaves an active owner.
C2_RemoveOwner ==
    \A p \in Principals, oid \in OrgIds, t \in Users :
        LET r == remove_member(Store, p, oid, t)
            target == {m \in ActiveOwners(oid) : m.user = t}
        IN (CanManage(p, oid) /\ target # {}) =>
            IF Cardinality(ActiveOwners(oid)) = 1
            THEN r.status = 400 /\ r.error = "last_owner" /\ r.store = Store
            ELSE /\ r.status = 204
                 /\ r.store = [Store EXCEPT !.memberships =
                        (memberships \ target) \cup {[m EXCEPT !.is_active = FALSE] : m \in target}]
                 /\ \E m \in r.store.memberships :
                        m.organization = oid /\ m.role = "owner" /\ m.is_active

\* an owner was removed while the organization had two active owners; the
\* removal of the remaining one is refused
C2_Witness ==
    \E oid \in OrgIds, p \in Users :
        /\ Cardinality(ActiveOwners(oid)) = 1 /\ CanManage(p, oid)
        /\ \E m \in memberships : /\ m.organization = oid /\ m.role = "owner"
                                  /\ ~m.is_active /\ m.user # p
        /\ remove_member(Store, p, oid, p).status = 400
        /\ remove_member(Store, p, oid, p).error = "last_owner"

RemovedOwner(s) ==
    /\ requests[s].op = "remove_member" /\ requests[s].pc = "done"
    /\ requests[s].status = 204
    /\ \E m \in requests[s].found : m.role = "owner"

\* C3: two concurrent remove_member requests that target the two different
\* active owners of an organization do not both succeed; the organization
\* keeps an active owner.
C3_ConcurrentRemovalKeepsOwner ==
    \A s1, s2 \in Slots :
        (/\ s1 # s2 /\ RemovedOwner(s1) /\ RemovedOwner(s2)
         /\ requests[s1].oid = requests[s2].oid
         /\ requests[s1].target # requests[s2].target)
        => ActiveOwners(requests[s1].oid) # {}

\* C4: at most one membership row exists for a (user, organization) pair,
\* also while create attempts for the same pair interleave.
C4_UniqueMembership ==
    \A m1, m2 \in memberships :
        (m1.user = m2.user /\ m1.organization = m2.organization) => m1 = m2

\* two requests both passed the "already a member" check for the same pair;
\* one inserted the row and the other was stopped by the constraint
C4_Witness ==
    \E s1, s2 \in Slots :
        /\ requests[s1].op = "add_member" /\ requests[s1].status = 201
        /\ requests[s2].op = "add_member" /\ requests[s2].status = 500
        /\ requests[s1].target = requests[s2].target
        /\ requests[s1].oid = requests[s2].oid

AnsweredAdd(s) == requests[s].op = "add_member" /\ requests[s].pc = "done"

\* C5: of two concurrent add_member requests for the same (user, organization)
\* with a valid role, when one succeeds the other is answered with the
\* Conflict outcome (400, already a member).
C5_LoserGetsConflict ==
    \A s1, s2 \in Slots :
        (/\ s1 # s2 /\ AnsweredAdd(s1) /\ AnsweredAdd(s2)
         /\ requests[s1].oid = requests[s2].oid
         /\ requests[s1].target = requests[s2].target
         /\ requests[s1].body_org = requests[s1].oid
         /\ requests[s2].body_org = requests[s2].oid
         /\ requests[s2].role_name \in roles
         /\ requests[s1].status = 201)
        => (requests[s2].status = 400 /\ requests[s2].error = "already_member")

\* C6: a create-organization request that does not succeed leaves the store
\* as it was: no organization row and no membership row remain.
C6_CreateAllOrNothing ==
    [][\A p \in Principals, slug \in Slugs :
          (CreateOrganization(p, slug) /\ create_organization(Store, p, slug).status # 201)
          => UNCHANGED storeVars]_vars

\* C7: a successful create-organization request by p adds one organization,
\* created by p, and exactly one membership: p, that organization, role owner,
\* active.
C7_CreatorBecomesOwner ==
    \A p \in Principals, slug \in Slugs :
        LET r == create_organization(Store, p, slug)
            newOrgs == r.store.organizations \ organizations
            newMs == r.store.memberships \ memberships
        IN r.status = 201 =>
            /\ organizations \subseteq r.store.organizations
            /\ memberships \subseteq r.store.memberships
            /\ Cardinality(newOrgs) = 1 /\ Cardinality(newMs) = 1
            /\ \A o \in newOrgs : \A m \in newMs :
                  /\ o.created_by = p /\ o.slug = slug
                  /\ m.user = p /\ m.organization = o.id
                  /\ m.role = "owner" /\ m.is_active
                  /\ \A x \in organizations : x.id # o.id
                  /\ \A x \in memberships : x.id # m.id

\* an organization whose creator holds its owner membership, and a further
\* create request that succeeds
C7_Witness ==
    /\ \E o \in organizations : \E m \in memberships :
          /\ m.user = o.created_by /\ m.organization = o.id
          /\ m.role = "owner" /\ m.is_active
    /\ \E p \in Users, slug \in Slugs : create_organization(Store, p, slug).status = 201

Denied(r, st) == r.status \in {400, 401, 403, 404} /\ r.store = st

\* C8: a principal without an active membership in organization O is refused
\* every membership-scoped action on O (update organization, add member,
\* remove member, update a membership of O), and the store is unchanged.
C8_FailClosed ==
    LET st == Store IN
    \A p \in Principals, oid \in OrgIds :
        ~HasActiveMembership(p, oid) =>
            /\ \A data \in OrgData : Denied(update_organization(st, p, oid, data), st)
            /\ \A email \in Emails, role_name \in RoleNames \cup {UnknownRole},
                  body_org \in OrgIds :
                  Denied(add_member(st, p, oid, email, role_name, body_org), st)
            /\ \A user_id \in Users : Denied(remove_member(st, p, oid, user_id), st)
            /\ \A m \in memberships : m.organization = oid =>
                  \A data \in MembershipData :
                      Denied(update_membership(st, p, m.id, data), st)

\* a staff principal who sees an organization with members, holds no
\* membership in it and is refused with Forbidden
C8_Witness ==
    \E o \in organizations, p \in users :
        /\ is_staff(p) /\ ~HasActiveMembership(p, o.id)
        /\ ActiveOwners(o.id) # {}
        /\ update_organization(Store, p, o.id,
               [slug |-> NoChange, is_active |-> "false"]).status = 403
        /\ \E m \in memberships :
              /\ m.organization = o.id
              /\ update_membership(Store, p, m.id,
                     [role |-> "owner", is_active |-> NoChange]).status = 403

PlainMember(p, oid) ==
    \E m \in memberships : /\ m.user = p /\ m.organization = oid /\ m.is_active
                           /\ m.role \notin {"owner", "admin"}

SlugTaken(slug, oid) == \E x \in organizations : x.slug = slug /\ x.id # oid

----------------------------------------------------------------------------
(* Role gate of the four managing actions *)

Manager(p, oid) ==
    \E m \in memberships : /\ m.user = p /\ m.organization = oid /\ m.is_active
                           /\ m.role \in {"owner", "admin"}

Succeeded(r) == r.status \in {200, 201, 204}

AddInputs == [email : Emails, role_name : RoleNames \cup {UnknownRole}, body_org : OrgIds]

----------------------------------------------------------------------------
(* Revocation *)

NotFound(r, st) == r.status = 404 /\ r.store = st

----------------------------------------------------------------------------
(* Membership history *)

\* C13: no operation physically deletes a membership row: over every step
\* each row present before is present after, for the same user and
\* organization.
C13_HistoryRetained ==
    [][\A m \in memberships : \E n \in memberships' :
          /\ n.id = m.id /\ n.user = m.user
          /\ n.organization = m.organization]_vars

----------------------------------------------------------------------------
(* Membership creation errors *)

OrgVisible(p, o) == p \in users /\ (o.is_active \/ is_staff(p))

\* C14: add_member by an authorized actor for a user who already has a
\* membership in the organization, active or inactive, fails with Conflict
\* (400, already a member) and changes nothing, for every well-formed body
\* (existing organization, existing role).
C14_DuplicateIsConflict ==
    \A p \in users : \A o, b \in organizations : \A t \in users, role_name \in roles :
        LET r == add_member(Store, p, o.id, t, role_name, b.id) IN
        (/\ Manager(p, o.id) /\ OrgVisible(p, o)
         /\ \E m \in memberships : m.user = t /\ m.organization = o.id)
        => (r.status = 400 /\ r.error = "already_member" /\ r.store = Store)

----------------------------------------------------------------------------
(* Idempotence of removal *)

\* C16: removing a member is idempotent: a second remove_member for a
\* membership that the first one deactivated leaves the store as the first
\* left it and returns the same successful outcome (204), not an error.
C16_DeactivateIdempotent ==
    \A p \in Principals, oid \in OrgIds, U \in Users :
        LET first == remove_member(Store, p, oid, U)
            second == remove_member(first.store, p, oid, U)
        IN first.status = 204 =>
            (second.store = first.store /\ second.status = first.status)

----------------------------------------------------------------------------
(* Permission check and write under interleaving *)

\* the step in which slot s writes a membership row
Writes(s) ==
    /\ requests[s].pc \in {"insert", "save"}
    /\ requests'[s].pc = "done"
    /\ memberships' # memberships

\* C17: no add_member or remove_member write is committed on behalf of an
\* actor who, in the state the write is made in, does not hold an active
\* owner or admin membership in the organization, also when another request
\* deactivated the actor's membership after the actor's permission check.
C17_NoStaleGrant ==
    [][\A s \in Slots :
          Writes(s) => Manager(requests[s].p, requests[s].oid)]_vars

----------------------------------------------------------------------------
(* Slugs *)

SlugsUnique(orgs) == \A a, b \in orgs : a.slug = b.slug => a.id = b.id

\* C18: no two organizations share a slug in any reachable state; a create
\* whose slug is that of an existing organization fails with a validation
\* error on the slug (400) and creates neither an organization nor a
\* membership; no update leaves two organizations with one slug.
C18_UniqueSlugs ==
    /\ SlugsUnique(organizations)
    /\ \A p \in users, slug \in Slugs :
          (\E o \in organizations : o.slug = slug) =>
              /\ create_organization(Store, p, slug).status = 400
              /\ create_organization(Store, p, slug).error = "slug"
              /\ create_organization(Store, p, slug).store = Store
    /\ \A p \in Principals, oid \in OrgIds, data \in OrgData :
          SlugsUnique(update_organization(Store, p, oid, data).store.organizations)

\* two organizations; the owner of one asks for the slug of the other, by
\* update and by create, and is refused
C18_Witness ==
    \E p \in users, o1, o2 \in organizations :
        /\ o1.id # o2.id /\ Manager(p, o1.id) /\ OrgVisible(p, o1)
        /\ update_organization(Store, p, o1.id,
               [slug |-> o2.slug, is_active |-> NoChange]).status = 400
        /\ create_organization(Store, p, o2.slug).status = 400

----------------------------------------------------------------------------
(* Role attributes and authorization *)

\* priorities an administrator may give the Role rows in place of the seeded
\* ones: the model default (0) for all, and the seeded order reversed
PriorityEdits ==
    {[owner |-> 0, admin |-> 0, member |-> 0],
     [owner |-> 50, admin |-> 80, member |-> 100]}

\* permission documents: empty, as created, or naming capabilities
PermissionEdits ==
    {[owner |-> {}, admin |-> {}, member |-> {}],
     [owner |-> {}, admin |-> {}, member |-> {"manage_members", "update_organization"}]}

\* the stores that differ from st only in the priority and permissions of
\* the Role rows
RoleEdits(st) ==
    {[st EXCEPT !.role_rows = [n \in DOMAIN st.role_rows |->
          [name |-> n, priority |-> pr[n], permissions |-> pm[n]]]] :
        pr \in PriorityEdits, pm \in PermissionEdits}

\* what a request was answered and what it left in the tables
Decision(r) == <<r.status, r.error, r.ids, r.store.organizations, r.store.memberships>>

ProbeRoles == {"owner", "member"}

\* C19: authorization depends on the name of the actor's active role only:
\* in every store that differs from the current one only in the priority and
\* permission document of the Role rows, every request of every user on
\* every organization (detail, members, update organization, add member,
\* remove member, update membership) gets the same answer and leaves the
\* same rows.
C19_RoleNameOnly ==
    LET st == Store
        alts == RoleEdits(st)
    IN
    \A p \in users : \A o \in organizations :
        /\ LET now == Decision(retrieve_organization(st, p, o.id)) IN
           \A alt \in alts : Decision(retrieve_organization(alt, p, o.id)) = now
        /\ LET now == Decision(members(st, p, o.id)) IN
           \A alt \in alts : Decision(members(alt, p, o.id)) = now
        /\ \A is_active \in BoolInputs :
              LET data == [slug |-> NoChange, is_active |-> is_active]
                  now == Decision(update_organization(st, p, o.id, data))
              IN \A alt \in alts :
                    Decision(update_organization(alt, p, o.id, data)) = now
        /\ \A t \in Users :
              /\ LET now == Decision(remove_member(st, p, o.id, t)) IN
                 \A alt \in alts : Decision(remove_member(alt, p, o.id, t)) = now
              /\ \A role_name \in ProbeRoles :
                    LET now == Decision(add_member(st, p, o.id, t, role_name, o.id)) IN
                    \A alt \in alts :
                        Decision(add_member(alt, p, o.id, t, role_name, o.id)) = now
        /\ \A m \in memberships : m.organization = o.id =>
              \A role \in ProbeRoles \cup {NoChange} :
                  LET data == [role |-> role, is_active |-> NoChange]
                      now == Decision(update_membership(st, p, m.id, data))
                  IN \A alt \in alts :
                        Decision(update_membership(alt, p, m.id, data)) = now

\* an organization with an owner and a plain member, and a store in which
\* the member role outranks the owner role and carries the capabilities: the
\* member is still refused and the owner still allowed
C19_Witness ==
    \E p, q \in users, o \in organizations : \E alt \in RoleEdits(Store) :
        /\ PlainMember(p, o.id) /\ Manager(q, o.id) /\ OrgVisible(p, o) /\ OrgVisible(q, o)
        /\ alt.role_rows["member"].priority > alt.role_rows["owner"].priority
        /\ alt.role_rows["member"].permissions # {}
        /\ remove_member(alt, p, o.id, q).status = 403
        /\ update_organization(alt, q, o.id,
               [slug |-> NoChange, is_active |-> "false"]).status = 200

----------------------------------------------------------------------------
\* C20: a user record is never hard-deleted: every user in the store before
\* a request is still in the store after it, whatever the request and
\* whoever sends it.
C20_UsersNeverDeleted == [][users \subseteq users']_vars

----------------------------------------------------------------------------
\* C21: the creator of every organization in the store is a user in the
\* store, and a request by anyone to delete a user who created an
\* organization that still exists does not succeed and leaves the store as
\* it was.
C21_CreatorExists ==
    /\ \A o \in organizations : o.created_by \in users
    /\ \A p \in Principals, uid \in Users :
          (\E o \in organizations : o.created_by = uid) =>
              LET r == destroy_user(Store, p, uid) IN
              ~Succeeded(r) /\ r.store = Store

\* an organization whose creator asks for their own deletion and is refused
\* by the protection, after another user has been deleted
C21_Witness ==
    /\ users # Users
    /\ \E o \in organizations :
          /\ o.created_by \in users
          /\ destroy_user(Store, o.created_by, o.created_by).error = "protected_error"

----------------------------------------------------------------------------
\* the (user, organization) pairs that hold an active membership
ActivePairs(ms) == {<<m.user, m.organization>> : m \in {x \in ms : x.is_active}}

\* C22: updating an organization and updating a membership (PATCH) never
\* activate or deactivate a membership: whoever sends the request and
\* whatever its body, the set of active (user, organization) pairs after it
\* is the set before it.
C22_PatchKeepsActivePairs ==
    LET st == Store
        before == ActivePairs(memberships)
    IN
    /\ \A p \in Principals, oid \in OrgIds, data \in OrgData :
          ActivePairs(update_organization(st, p, oid, data).store.memberships) = before
    /\ \A p \in Principals, mid \in MembershipIds, data \in MembershipData :
          ActivePairs(update_membership(st, p, mid, data).store.memberships) = before

----------------------------------------------------------------------------
\* the answer to a request that carries no valid credential
Unauthorized(r, st) == r.status = 401 /\ r.store = st

\* C23: a request with no valid credential (none at all, or the credential
\* of a user who is no longer in the store) is answered 401 by every
\* organization, membership and user endpoint, logout and users/me
\* included, and changes nothing.
C23_Unauthorized ==
    LET st == Store IN
    \A p \in Principals \ users :
        /\ Unauthorized(list_organizations(st, p), st)
        /\ Unauthorized(me(st, p), st)
        /\ Unauthorized(list_users(st, p), st)
        /\ Unauthorized(user_organizations(st, p), st)
        /\ \A flag \in BOOLEAN :
              /\ Unauthorized(logout(st, p, flag), st)
              /\ Unauthorized(change_password(st, p, flag), st)
        /\ \A slug \in Slugs : Unauthorized(create_organization(st, p, slug), st)
        /\ \A uid \in Users :
              /\ Unauthorized(retrieve_user(st, p, uid), st)
              /\ Unauthorized(update_user(st, p, uid), st)
              /\ Unauthorized(destroy_user(st, p, uid), st)
        /\ \A oid \in OrgIds :
              /\ Unauthorized(retrieve_organization(st, p, oid), st)
              /\ Unauthorized(members(st, p, oid), st)
              /\ Unauthorized(destroy_organization(st, p, oid), st)
              /\ Unauthorized(list_memberships(st, p, oid), st)
              /\ \A data \in OrgData : Unauthorized(update_organization(st, p, oid, data), st)
              /\ \A a \in AddInputs :
                    Unauthorized(add_member(st, p, oid, a.email, a.role_name, a.body_org), st)
              /\ \A t \in Users : Unauthorized(remove_member(st, p, oid, t), st)
        /\ Unauthorized(list_memberships(st, p, NoFilter), st)
        /\ \A mid \in MembershipIds :
              /\ Unauthorized(retrieve_membership(st, p, mid), st)
              /\ \A data \in MembershipData :
                    Unauthorized(update_membership(st, p, mid, data), st)

\* an organization with its owner, and a user who has been deleted: the
\* deleted user's credential and no credential are both answered 401 on the
\* organization and on users/me
C23_Witness ==
    \E o \in organizations : \E gone \in Users \ users :
        /\ \E m \in memberships : m.organization = o.id /\ m.is_active
        /\ destroy_organization(Store, gone, o.id).status = 401
        /\ destroy_organization(Store, Anonymous, o.id).status = 401
        /\ me(Store, gone).status = 401
        /\ logout(Store, Anonymous, TRUE).status = 401

----------------------------------------------------------------------------
\* the ids of the active memberships among ms
ActiveIds(ms) == {m.id : m \in {x \in ms : x.is_active}}

\* C24: for an authenticated non-staff principal P, the membership listing
\* filtered on organization O holds all active memberships of O when O is
\* active and P has an active membership in it, whatever P's role, and is
\* empty otherwise; the unfiltered listing holds exactly P's own active
\* memberships; no inactive membership is listed.
C24_MembershipListing ==
    LET st == Store IN
    \A p \in users \ StaffUsers :
        /\ \A oid \in OrgIds :
              LET r == list_memberships(st, p, oid)
                  member == /\ \E o \in organizations : o.id = oid /\ o.is_active
                            /\ \E m \in memberships :
                                  m.organization = oid /\ m.user = p /\ m.is_active
              IN
              /\ r.status = 200 /\ r.store = st
              /\ r.ids = IF member
                         THEN ActiveIds({m \in memberships : m.organization = oid})
                         ELSE {}
        /\ LET r == list_memberships(st, p, NoFilter) IN
           /\ r.status = 200 /\ r.store = st
           /\ r.ids = ActiveIds({m \in memberships : m.user = p})

\* a non-staff plain member lists the organization and gets the owner's
\* membership with their own
C24_Witness ==
    \E p \in users \ StaffUsers : \E o \in organizations :
        /\ PlainMember(p, o.id)
        /\ \E m \in memberships : m.id \in list_memberships(Store, p, o.id).ids /\ m.user # p
        /\ list_memberships(Store, p, NoFilter).ids # list_memberships(Store, p, o.id).ids

----------------------------------------------------------------------------
\* C25: an authenticated non-staff user retrieves and updates their own user
\* record and gets NotFound on every other user's record, existing or not;
\* the list of all users is answered Forbidden to a non-staff user and is
\* given in full to a staff user.
C25_OwnRecordOnly ==
    LET st == Store IN
    /\ \A p \in users \ StaffUsers :
          /\ list_users(st, p).status = 403
          /\ list_users(st, p).ids = {}
          /\ \A uid \in Users :
                /\ retrieve_user(st, p, uid).status = IF uid = p THEN 200 ELSE 404
                /\ update_user(st, p, uid).status = IF uid = p THEN 200 ELSE 404
                /\ uid # p => /\ retrieve_user(st, p, uid).ids = {}
                              /\ update_user(st, p, uid).ids = {}
    /\ \A p \in users \cap StaffUsers :
          list_users(st, p).status = 200 /\ list_users(st, p).ids = users

\* a non-staff user and a staff user in the store with an organization: the
\* first is answered NotFound on the record of the second and Forbidden on
\* the list, the second gets the list
C25_Witness ==
    /\ organizations # {}
    /\ \E p \in users \ StaffUsers : \E q \in users \cap StaffUsers :
          /\ retrieve_user(Store, p, q).status = 404
          /\ update_user(Store, p, p).status = 200
          /\ list_users(Store, p).status = 403
          /\ list_users(Store, q).ids = {p, q}

----------------------------------------------------------------------------
\* C26: an organization is deleted only at the request of a principal with
\* an active owner or admin membership in it: a delete request from anyone
\* else does not succeed and removes neither the organization nor any of its
\* memberships.
C26_DeleteNeedsManager ==
    LET st == Store IN
    \A p \in Principals : \A o \in organizations :
        LET r == destroy_organization(st, p, o.id) IN
        ~Manager(p, o.id) => ~Succeeded(r) /\ r.store = st

----------------------------------------------------------------------------
\* C27: the outcome of add_member on organization O is that of the request
\* whose body names O itself, whichever existing organization the body's
\* organization field names: same answer, same error, same rows written; and
\* a membership that the request creates belongs to O.
C27_UrlOrganizationOnly ==
    LET st == Store IN
    \A p \in users : \A o \in organizations :
        \A email \in Emails, role_name \in RoleNames \cup {UnknownRole} :
            LET byUrl == add_member(st, p, o.id, email, role_name, o.id) IN
            \A b \in organizations :
                LET r == add_member(st, p, o.id, email, role_name, b.id) IN
                /\ Decision(r) = Decision(byUrl)
                /\ \A m \in r.store.memberships \ memberships : m.organization = o.id

----------------------------------------------------------------------------
\* p's active membership in the organization has the role admin
Admin(p, oid) ==
    \E m \in memberships : /\ m.user = p /\ m.organization = oid /\ m.is_active
                           /\ m.role = "admin"

\* the memberships of the organization that carry the owner role, each with
\* its active flag
OwnerRows(ms, oid) ==
    {<<m.id, m.is_active>> : m \in {x \in ms : x.organization = oid /\ x.role = "owner"}}

----------------------------------------------------------------------------
\* C29: the user and the organization of a membership never change: in every
\* step, a membership row that exists before and after the step has the same
\* user and the same organization; a membership update changes role and
\* is_active only.
C29_BindingFixed ==
    [][\A m \in memberships : \A n \in memberships' :
          n.id = m.id => n.user = m.user /\ n.organization = m.organization]_vars

\* the membership an organization's creator got with it now carries the
\* member role and is inactive: a membership update has rewritten both
\* fields, and the row still names the creator and the organization
C29_Witness ==
    \E o \in organizations : \E m \in memberships :
        /\ m.organization = o.id /\ m.user = o.created_by
        /\ m.role = "member" /\ ~m.is_active

----------------------------------------------------------------------------
\* C30: while an organization is inactive, every request on it or on one of
\* its memberships by an authenticated non-staff principal, its owners
\* included, is refused and leaves the store unchanged: detail, members,
\* update, delete, add_member, remove_member, membership detail and
\* membership update.
C30_InactiveOrgSealed ==
    LET st == Store IN
    \A p \in users \ StaffUsers : \A o \in organizations :
        ~o.is_active =>
            /\ Denied(retrieve_organization(st, p, o.id), st)
            /\ Denied(members(st, p, o.id), st)
            /\ Denied(destroy_organization(st, p, o.id), st)
            /\ \A data \in OrgData : Denied(update_organization(st, p, o.id, data), st)
            /\ \A a \in AddInputs :
                  Denied(add_member(st, p, o.id, a.email, a.role_name, a.body_org), st)
            /\ \A t \in Users : Denied(remove_member(st, p, o.id, t), st)
            /\ \A m \in memberships : m.organization = o.id =>
                  /\ Denied(retrieve_membership(st, p, m.id), st)
                  /\ \A data \in MembershipData :
                        Denied(update_membership(st, p, m.id, data), st)

====
